---- MODULE Spec2Model ----
(***************************************************************************)
(* A state-machine model of pint/residuals.py: the Residuals entity, the   *)
(* WidebandDMResiduals entity and the CombinedResiduals view, together     *)
(* with the observation set (TOAs) and the timing model they refer to.     *)
(*                                                                         *)
(* Numbers are fixed-point integers: a phase is counted in quarter cycles, *)
(* a weight 1/err^2 is counted in quarters (err is 1 or 2), a chi-squared  *)
(* is counted in quarters, and a mean is the floor of the exact quotient.  *)
(* An optional value (Python's None) is the empty tuple, a present value x *)
(* is the one-element tuple <<x>>.                                         *)
(***************************************************************************)
EXTENDS Integers, Sequences, FiniteSets

\* Number of TOAs in the shared observation set.
NumToas == 2
\* Number of timing-model objects that exist (model 1 is the one an entity
\* is built from; the others are the refitted models given to update_model).
NumModels == 2
\* Largest number of changes the owners of the TOAs and of the model make to
\* them in one behaviour.
MaxEdits == 1
\* Largest number of residual entities in a CombinedResiduals list.
MaxObjs == 2
\* Largest length of one entity's vector in a CombinedResiduals list.
MaxLen == 2

None == <<>>
Some(x) == <<x>>

\* A chi-squared value: a finite number of quarters, or numpy's +infinity.
Fin(v) == [inf |-> FALSE, v |-> v]
Inf == [inf |-> TRUE, v |-> 0]
\* float addition: anything plus +infinity is +infinity
ChiAdd(a, b) == IF a.inf \/ b.inf THEN Inf ELSE Fin(a.v + b.v)

RECURSIVE SeqSum(_)
SeqSum(s) == IF s = <<>> THEN 0 ELSE Head(s) + SeqSum(Tail(s))

Idx == 1..NumToas
ErrVals == {0, 1, 2}
Zeros == [i \in Idx |-> 0]

\* ---------------------------------------------------------------- strings
\* A residual_type string is a tuple of characters, so that str.lower() is
\* a conversion and not the identity.
LowerChar(c) ==
    CASE c = "T" -> "t" [] c = "O" -> "o" [] c = "A" -> "a"
      [] c = "D" -> "d" [] c = "M" -> "m" [] OTHER -> c
lower(s) == [i \in DOMAIN s |-> LowerChar(s[i])]

toa == <<"t", "o", "a">>
dm == <<"d", "m">>
RTypes == {toa, <<"T", "O", "A">>, dm, <<"x", "y", "z">>}

\* residual_map = {"toa": Residuals, "dm": WidebandDMResiduals}
residual_map == [k \in {toa, dm} |-> IF k = toa THEN "Residuals" ELSE "WidebandDMResiduals"]

\* ------------------------------------------------------ external collaborators
\* model.phase(toas, abs_phase): predicted phase of TOA i, in quarter cycles.
phase(i, abs_phase) == 5 * i - 4 + (IF abs_phase THEN 13 ELSE 0)
\* The pulse numbers the TOAs table carries when it has the column.
PulseNumbers == [i \in Idx |-> i + 3]
\* Phase(int, frac): the fractional part of x quarter cycles, in [-2, 2).
Frac(x) == ((x + 2) % 4) - 2
\* pint.utils.weighted_mean(x, w): sum(w x) / sum(w)
weighted_mean(x, w) ==
    SeqSum([i \in DOMAIN x |-> w[i] * x[i]]) \div SeqSum(w)
\* numpy's array.mean()
mean(x) == SeqSum(x) \div Len(x)
\* 1 / err^2, in quarters
Weight(e) == 4 \div (e * e)
\* The value of a spin-frequency parameter of the model.
ParamValue(n) == IF n = "F0" THEN 1 ELSE 2
\* model.dm_value(toas) of model object id, for TOA i
dm_value(id, i) == id * i
\* The wideband DM measured for TOA i (the pp_dm flag).
pp_dm == [i \in Idx |-> 3 + i]

VARIABLES
    toas,           \* the shared observation set
    model,          \* timing-model object 1, changed in place by its owner
    res,            \* the residual entity (cls = "none": not constructed)
    ret,            \* what the last call did and returned (history)
    dirty,          \* what changed in the inputs since the last recomputation
    edits,          \* how many changes the owners have made
    residual_objs,  \* CombinedResiduals.residual_objs
    cret            \* what the last CombinedResiduals read returned

vars == <<toas, model, res, ret, dirty, edits, residual_objs, cret>>

HasZero(e) == \E i \in DOMAIN e : e[i] = 0

\* ---------------------------------------------------------------- frames
\* What a method call did: the exception it raised ("none": it returned val),
\* the entity as the call left it, the delta_pulse_number column as the call
\* left it, and a log of the inner calls (history, read by the properties):
\*   phase  the calc_phase_resids call: its flags, tracking mode and outcome
\*   freq   the get_PSR_freq call: its outcome
\*   gls    the arguments passed to the GLS evaluator
\*   warn   a warning was logged
\*   calc   calc_chi2 was called
Frame(self) ==
    [exc |-> "none", msg |-> "", val |-> None, self |-> self, dpn |-> toas.dpn,
     phase |-> None, freq |-> None, gls |-> None, warn |-> FALSE, calc |-> FALSE]
Ok(f, v) == [f EXCEPT !.exc = "none", !.msg = "", !.val = Some(v)]
Raise(f, e, m) == [f EXCEPT !.exc = e, !.msg = m, !.val = None]

\* Bind(v, F): F applied to the value of v, which is computed once.
Bind(v, F(_)) == CHOOSE r \in {F(x) : x \in {v}} : TRUE

\* ---------------------------------------------------------------- Residuals
\* The full (not yet mean-subtracted) phase residuals, lines 148-178.
FullPhase(self, d) ==
    IF self.track_mode = "use_pulse_numbers"
    THEN [i \in Idx |-> (phase(i, TRUE) + 4 * d[i]) - 4 * toas.pulse_number[1][i]]
    ELSE LET modelphase == [i \in Idx |-> phase(i, FALSE) + 4 * d[i]]
             first == IF self.subtract_mean THEN modelphase[1] ELSE 0
         IN  [i \in Idx |-> Frac(modelphase[i] - first)]

\* The mean that lines 180-193 subtract from the full residuals, or the error.
SubtractMean(self, f, full) ==
    IF ~self.subtract_mean
    THEN Ok(f, full)
    ELSE IF ~self.use_weighted_mean
    THEN Ok(f, [i \in Idx |-> full[i] - mean(full)])
    ELSE IF HasZero(toas.err)
    THEN Raise(f, "ValueError", "Some TOA errors are zero")
    ELSE Ok(f, [i \in Idx |->
                  full[i] - weighted_mean(full, [j \in Idx |-> Weight(toas.err[j])])])

PhaseLog(self, f) ==
    Some([cls |-> self.cls, toas |-> self.toas, subtract_mean |-> self.subtract_mean,
          use_weighted_mean |-> self.use_weighted_mean,
          track_mode |-> self.track_mode, exc |-> f.exc, msg |-> f.msg])

\* A calc_phase_resids that zero-fills the delta_pulse_number column on
\* every call, present or not (a variant the frame property must reject).
calc_phase_resids_refills(self) ==
    Bind(IF self.toas = "None" THEN toas.dpn ELSE Some(Zeros), LAMBDA dpn :
    Bind([Frame(self) EXCEPT !.dpn = dpn], LAMBDA f :
    Bind(IF self.toas = "None"
         THEN Raise(f, "AttributeError", "NoneType has no attribute table")
         ELSE IF self.track_mode = "unset"
         THEN Raise(f, "AttributeError", "no attribute track_mode")
         ELSE IF self.track_mode = "use_pulse_numbers" /\ toas.pulse_number = None
         THEN Raise(f, "ValueError", "Pulse numbers missing from TOAs")
         ELSE Bind(FullPhase(self, dpn[1]), LAMBDA full : SubtractMean(self, f, full)),
         LAMBDA out : [out EXCEPT !.phase = PhaseLog(self, out)])))

\* Residuals.calc_phase_resids
calc_phase_resids(self) ==
    \* lines 141-145: the column is created, zero-filled, when it is absent
    Bind(IF self.toas = "None" THEN toas.dpn
         ELSE IF toas.dpn = None THEN Some(Zeros) ELSE toas.dpn, LAMBDA dpn :
    Bind([Frame(self) EXCEPT !.dpn = dpn], LAMBDA f :
    Bind(IF self.toas = "None"
         THEN Raise(f, "AttributeError", "NoneType has no attribute table")
         ELSE IF self.track_mode = "unset"
         THEN Raise(f, "AttributeError", "no attribute track_mode")
         ELSE IF self.track_mode = "use_pulse_numbers" /\ toas.pulse_number = None
         THEN Raise(f, "ValueError", "Pulse numbers missing from TOAs")
         ELSE Bind(FullPhase(self, dpn[1]), LAMBDA full : SubtractMean(self, f, full)),
         LAMBDA out : [out EXCEPT !.phase = PhaseLog(self, out)])))

F0names == <<"F0", "nu">>

\* Residuals.get_PSR_freq (modelF0=True)
get_PSR_freq(self) ==
    Bind({k \in DOMAIN F0names : F0names[k] \in model.params}, LAMBDA found :
    Bind(Frame(self), LAMBDA f :
    Bind(IF self.model = 0
         THEN Raise(f, "AttributeError", "NoneType has no attribute F0")
         \* line 204 reads self.model.F0.units before any name is looked up
         ELSE IF ~model.attrF0
         THEN Raise(f, "AttributeError", "model has no attribute F0")
         ELSE IF Cardinality(found) = 0
         THEN Raise(f, "ValueError", "no PSR frequency parameter found")
         ELSE IF Cardinality(found) > 1
         THEN Raise(f, "ValueError", "more than one PSR frequency parameter found")
         \* the loop keeps the value of the last name it finds
         ELSE Ok(f, ParamValue(F0names[CHOOSE k \in found : \A j \in found : j <= k])),
         LAMBDA out :
           [out EXCEPT !.freq = Some([exc |-> out.exc, msg |-> out.msg, val |-> out.val])])))

\* Residuals.calc_time_resids
calc_time_resids(self) ==
    Bind(IF self.phase_resids = None
         THEN calc_phase_resids(self)
         ELSE Ok(Frame(self), self.phase_resids[1]), LAMBDA p :
    IF p.exc # "none" THEN p
    ELSE Bind(get_PSR_freq([self EXCEPT !.phase_resids = p.val]), LAMBDA q :
         Bind([q EXCEPT !.dpn = p.dpn, !.phase = p.phase], LAMBDA g :
         IF q.exc # "none" THEN g
         ELSE Ok(g, [i \in Idx |-> (p.val[1][i] * 2) \div q.val[1]]))))

\* A get_dof that forgets the one degree of freedom of the mean
\* (a variant the dof properties must reject).
get_dof_no_mean(self) ==
    Len(toas.err) - Cardinality({p \in model.params : p \in model.free})

\* Residuals.get_dof
get_dof(self) ==
    Len(toas.err) - Cardinality({p \in model.params : p \in model.free}) - 1

\* GLSFitter(toas, model, residuals=self).fit_toas(maxiter, full_cov): the
\* generalized-least-squares evaluator, which scores when maxiter = 0.
fit_toas(self, maxiter, full_cov) ==
    Bind([Frame(self) EXCEPT !.gls = Some([maxiter |-> maxiter, full_cov |-> full_cov])],
         LAMBDA f :
    IF self.toas = "None" \/ self.time_resids = None
    THEN Raise(f, "AttributeError", "evaluator given no TOAs")
    ELSE IF model.gls = "singular"
    THEN Raise(f, "LinAlgError", "singular matrix")
    ELSE IF maxiter = 0
    THEN Ok(f, Fin(SeqSum([i \in Idx |-> self.time_resids[1][i] * self.time_resids[1][i]])))
    ELSE Ok(f, Fin(0)))

\* The sum over the TOAs of (x / err)^2, in quarters.
SumSquares(x, err) ==
    SeqSum([i \in Idx |-> (x[i] * x[i] * 4) \div (err[i] * err[i])])

\* A calc_chi2 that does not look for zero uncertainties and counts a TOA of
\* zero uncertainty as contributing nothing (a variant the zero-uncertainty
\* property must reject).
calc_chi2_no_zero_check(self, full_cov) ==
    Bind([Frame(self) EXCEPT !.calc = TRUE], LAMBDA f :
    IF self.model = 0
    THEN Raise(f, "AttributeError", "NoneType has no attribute has_correlated_errors")
    ELSE IF model.has_correlated_errors
    THEN Bind(fit_toas(self, 0, full_cov), LAMBDA g :
         IF g.exc = "LinAlgError"
         THEN [g EXCEPT !.exc = "none", !.msg = "", !.val = Some(Inf),
                        !.warn = TRUE, !.calc = TRUE]
         ELSE [g EXCEPT !.calc = TRUE])
    ELSE IF self.toas = "None"
    THEN Raise(f, "AttributeError", "NoneType has no attribute get_errors")
    ELSE IF self.time_resids = None
    THEN Raise(f, "TypeError", "unsupported operand NoneType")
    ELSE Ok(f, Fin(SeqSum([i \in Idx |->
                    IF toas.err[i] = 0 THEN 0
                    ELSE (self.time_resids[1][i] * self.time_resids[1][i] * 4)
                         \div (toas.err[i] * toas.err[i])]))))

\* A calc_chi2 without the except clause of lines 254-257: the failure of the
\* evaluator reaches the caller (a variant the degeneracy property must reject).
calc_chi2_no_catch(self, full_cov) ==
    Bind([Frame(self) EXCEPT !.calc = TRUE], LAMBDA f :
    IF self.model = 0
    THEN Raise(f, "AttributeError", "NoneType has no attribute has_correlated_errors")
    ELSE IF model.has_correlated_errors
    THEN Bind(fit_toas(self, 0, full_cov), LAMBDA g : [g EXCEPT !.calc = TRUE])
    ELSE IF self.toas = "None"
    THEN Raise(f, "AttributeError", "NoneType has no attribute get_errors")
    ELSE IF HasZero(toas.err)
    THEN Ok(f, Inf)
    ELSE IF self.time_resids = None
    THEN Raise(f, "TypeError", "unsupported operand NoneType")
    ELSE Ok(f, Fin(SumSquares(self.time_resids[1], toas.err))))

\* Residuals.calc_chi2
Residuals_calc_chi2(self, full_cov) ==
    Bind([Frame(self) EXCEPT !.calc = TRUE], LAMBDA f :
    IF self.model = 0
    THEN Raise(f, "AttributeError", "NoneType has no attribute has_correlated_errors")
    ELSE IF model.has_correlated_errors
    THEN Bind(fit_toas(self, 0, full_cov), LAMBDA g :
         IF g.exc = "LinAlgError"
         THEN [g EXCEPT !.exc = "none", !.msg = "", !.val = Some(Inf),
                        !.warn = TRUE, !.calc = TRUE]
         ELSE [g EXCEPT !.calc = TRUE])
    ELSE IF self.toas = "None"
    THEN Raise(f, "AttributeError", "NoneType has no attribute get_errors")
    ELSE IF HasZero(toas.err)
    THEN Ok(f, Inf)
    ELSE IF self.time_resids = None
    THEN Raise(f, "TypeError", "unsupported operand NoneType")
    ELSE Ok(f, Fin(SumSquares(self.time_resids[1], toas.err))))

\* An update that computes the time residuals before it stores the new phase
\* residuals, so from the phase residuals of the call before (a variant the
\* idempotence property must reject).
update_time_before_phase(self) ==
    Bind(IF self.toas = "None" \/ self.model = 0
         THEN [self EXCEPT !.phase_resids = None, !.time_resids = None]
         ELSE self, LAMBDA s1 :
    IF s1.toas = "None"
    THEN Raise(Frame(s1), "ValueError", "No TOAs provided for residuals update")
    ELSE IF s1.model = 0
    THEN Raise(Frame(s1), "ValueError", "No model provided for residuals update")
    ELSE Bind(calc_phase_resids(s1), LAMBDA p :
         IF p.exc # "none" THEN [p EXCEPT !.self = s1]
         ELSE Bind([s1 EXCEPT !.phase_resids = p.val], LAMBDA s2 :
              Bind(calc_time_resids(s1), LAMBDA t :
              IF t.exc # "none"
              THEN [t EXCEPT !.dpn = p.dpn, !.phase = p.phase, !.self = s2]
              ELSE [t EXCEPT !.dpn = p.dpn, !.phase = p.phase, !.val = None,
                             !.self = [s2 EXCEPT !.time_resids = t.val,
                                                 !._chi2 = None,
                                                 !.dof = Some(get_dof(s2))]]))))

\* Residuals.update (WidebandDMResiduals inherits it)
update(self) ==
    Bind(IF self.toas = "None" \/ self.model = 0
         THEN [self EXCEPT !.phase_resids = None, !.time_resids = None]
         ELSE self, LAMBDA s1 :
    IF s1.toas = "None"
    THEN Raise(Frame(s1), "ValueError", "No TOAs provided for residuals update")
    ELSE IF s1.model = 0
    THEN Raise(Frame(s1), "ValueError", "No model provided for residuals update")
    ELSE Bind(calc_phase_resids(s1), LAMBDA p :
         IF p.exc # "none" THEN [p EXCEPT !.self = s1]
         ELSE Bind([s1 EXCEPT !.phase_resids = p.val], LAMBDA s2 :
              Bind(calc_time_resids(s2), LAMBDA t :
              IF t.exc # "none"
              THEN [t EXCEPT !.dpn = p.dpn, !.phase = p.phase, !.self = s2]
              ELSE [t EXCEPT !.dpn = p.dpn, !.phase = p.phase, !.val = None,
                             !.self = [s2 EXCEPT !.time_resids = t.val,
                                                 !._chi2 = None,
                                                 !.dof = Some(get_dof(s2))]]))))

\* Residuals.resids
Residuals_resids(self) ==
    IF self.scaled_by_F0
    THEN [Frame(self) EXCEPT !.val = self.time_resids]
    ELSE IF self.phase_resids = None
    THEN Bind(calc_phase_resids(self), LAMBDA p :
         IF p.exc # "none" THEN p
         ELSE [p EXCEPT !.self = [self EXCEPT !.phase_resids = p.val]])
    ELSE [Frame(self) EXCEPT !.val = self.phase_resids]

\* The TOA uncertainty model.scaled_toa_uncertainty returns (EFAC = 2).
scaled_toa_uncertainty(e) == 2 * e
\* 1 / err^2 for the epoch sums, in sixteenths
EpochWeight(e) == 16 \div (e * e)
\* ecorr.ecorr_basis_weight_pair(toas): one epoch that holds every TOA, and
\* the ECORR variance of the epoch.
ecorr_basis_weight_pair == [U |-> [i \in Idx |-> 1], ecorr_err2 |-> 3]

\* Residuals.ecorr_average
ecorr_average(self, use_noise_model) ==
    Bind(Frame(self), LAMBDA f :
    IF self.model = 0
    THEN Raise(f, "AttributeError", "NoneType has no attribute get_components_by_category")
    ELSE IF ~model.ecorr
    THEN Raise(f, "ValueError", "ECORR not present in noise model")
    ELSE IF self.toas = "None"
    THEN Raise(f, "AttributeError", "NoneType has no attribute table")
    ELSE Bind(ecorr_basis_weight_pair, LAMBDA pair :
         Bind(IF use_noise_model
              THEN [i \in Idx |-> scaled_toa_uncertainty(toas.err[i])]
              ELSE toas.err, LAMBDA err :
         Bind(IF use_noise_model THEN pair.ecorr_err2 ELSE 0, LAMBDA ecorr_err2 :
         IF self.time_resids = None
         THEN Raise(f, "TypeError", "unsupported operand NoneType")
         \* a zero uncertainty gives an infinite weight and nan averages
         ELSE IF HasZero(err)
         THEN Ok(f, [nan |-> TRUE, time_resids |-> 0, a_norm |-> 0,
                     ecorr_err2 |-> ecorr_err2, indices |-> <<Idx>>])
         ELSE Bind([i \in Idx |-> EpochWeight(err[i])], LAMBDA wt :
              Bind(SeqSum([i \in Idx |-> pair.U[i] * wt[i]]), LAMBDA a_norm :
              Ok(f, [nan |-> FALSE,
                     time_resids |->
                         SeqSum([i \in Idx |-> pair.U[i] * wt[i] * self.time_resids[1][i]])
                             \div a_norm,
                     \* errors is sqrt(1 / a_norm + ecorr_err2): its two terms
                     a_norm |-> a_norm, ecorr_err2 |-> ecorr_err2,
                     indices |-> <<{i \in Idx : pair.U[i] # 0}>>])))))))

\* ------------------------------------------------------ WidebandDMResiduals
\* WidebandDMResiduals.calc_resids
calc_resids(self) ==
    Bind(Frame(self), LAMBDA f :
    Bind([i \in Idx |-> self.dm_data[1][i] - dm_value(self.get_model_value, i)],
         LAMBDA r0 :
    IF ~self.subtract_mean
    THEN Ok(f, r0)
    ELSE IF ~self.use_weighted_mean
    THEN Ok(f, [i \in Idx |-> r0[i] - mean(r0)])
    ELSE IF self.dm_error = None \/ HasZero(self.dm_error[1])
    THEN Raise(f, "ValueError", "Some DM errors are zero")
    ELSE Ok(f, [i \in Idx |->
                  r0[i] - weighted_mean(r0, [j \in Idx |-> Weight(self.dm_error[1][j])])])))

\* WidebandDMResiduals.resids
Wideband_resids(self) == calc_resids(self)

\* WidebandDMResiduals.calc_chi2
Wideband_calc_chi2(self) ==
    IF HasZero(self.dm_error[1])
    THEN Ok([Frame(self) EXCEPT !.calc = TRUE], Inf)
    ELSE Bind(Wideband_resids(self), LAMBDA r :
         IF r.exc # "none"
         THEN [r EXCEPT !.calc = TRUE]
         ELSE [r EXCEPT !.calc = TRUE,
                        !.val = Some(Fin(SumSquares(r.val[1], self.dm_error[1])))])

\* WidebandDMResiduals.update_model
update_model(self, new_model) ==
    [Frame(self) EXCEPT !.self = [self EXCEPT !.model = new_model, !.model_func = new_model]]

\* ---------------------------------------------------- methods of both classes
calc_chi2(self, full_cov) ==
    IF self.cls = "WidebandDMResiduals"
    THEN Wideband_calc_chi2(self)
    ELSE Residuals_calc_chi2(self, full_cov)

\* A chi2 property that calls calc_chi2 on every read (a variant the cache
\* property must reject).
chi2_always_computes(self) ==
    Bind(calc_chi2(self, FALSE), LAMBDA c :
    IF c.exc # "none" THEN c
    ELSE [c EXCEPT !.self = [self EXCEPT !._chi2 = c.val]])

\* A chi2 property that takes every failure of calc_chi2 for +infinity and
\* caches it (a variant the cache-and-residuals invariant must reject).
chi2_failure_is_inf(self) ==
    IF self._chi2 = None
    THEN Bind(calc_chi2(self, FALSE), LAMBDA c :
         IF c.exc # "none"
         THEN [c EXCEPT !.exc = "none", !.msg = "", !.val = Some(Inf),
                        !.self = [self EXCEPT !._chi2 = Some(Inf)]]
         ELSE [c EXCEPT !.self = [self EXCEPT !._chi2 = c.val]])
    ELSE Ok(Frame(self), self._chi2[1])

\* The chi2 property (Residuals.chi2 and WidebandDMResiduals.chi2 are the same code).
chi2(self) ==
    IF self._chi2 = None
    THEN Bind(calc_chi2(self, FALSE), LAMBDA c :
         IF c.exc # "none" THEN c
         ELSE [c EXCEPT !.self = [self EXCEPT !._chi2 = c.val]])
    ELSE Ok(Frame(self), self._chi2[1])

resids(self) ==
    IF self.cls = "WidebandDMResiduals" THEN Wideband_resids(self) ELSE Residuals_resids(self)

\* ------------------------------------------------------------ construction
NoEntity ==
    [cls |-> "none", toas |-> "None", model |-> 0, residual_type |-> <<>>,
     subtract_mean |-> FALSE, use_weighted_mean |-> FALSE,
     track_mode |-> "unset", arg_track_mode |-> "unset", scaled_by_F0 |-> FALSE,
     phase_resids |-> None, time_resids |-> None, dof |-> None, _chi2 |-> None,
     get_model_value |-> 0, model_func |-> 0, dm_data |-> None, dm_error |-> None]

\* The attributes both constructors store from their arguments.
Stored(cls, a) ==
    [NoEntity EXCEPT !.cls = cls, !.toas = a.toas, !.model = a.model,
                     !.residual_type = a.residual_type,
                     !.subtract_mean = a.subtract_mean,
                     !.use_weighted_mean = a.use_weighted_mean]

\* A __new__ that makes a Residuals of every residual_type it does not know
\* (a variant the unsupported-variant property must reject).
Residuals_new_lenient(cls, residual_type) ==
    IF cls = "Residuals"
    THEN IF lower(residual_type) \in DOMAIN residual_map
         THEN [exc |-> "none", cls |-> residual_map[lower(residual_type)]]
         ELSE [exc |-> "none", cls |-> "Residuals"]
    ELSE [exc |-> "none", cls |-> cls]

\* Residuals.__new__: the class the new object gets, or the error.
Residuals_new(cls, residual_type) ==
    IF cls = "Residuals"
    THEN IF lower(residual_type) \in DOMAIN residual_map
         THEN [exc |-> "none", cls |-> residual_map[lower(residual_type)]]
         ELSE [exc |-> "ValueError", cls |-> "none"]
    ELSE [exc |-> "none", cls |-> cls]

\* An __init__ that keeps the caller's track_mode whatever TRACK is (a
\* variant the tracking-mode property must reject).
InitTrackMode_callers(a) == a.track_mode

\* The tracking mode Residuals.__init__ stores, lines 71-73.
InitTrackMode(a) ==
    IF model.TRACK = "-2" THEN "use_pulse_numbers" ELSE a.track_mode

\* Residuals.__init__
Residuals_init(a) ==
    Bind([Stored("Residuals", a) EXCEPT !.track_mode = a.track_mode,
                                        !.arg_track_mode = a.track_mode], LAMBDA s0 :
    IF a.model = 0
    THEN Raise(Frame(s0), "AttributeError", "NoneType has no attribute TRACK")
    ELSE Bind([s0 EXCEPT !.track_mode = InitTrackMode(a)], LAMBDA s1 :
         IF a.toas = "None"
         THEN Frame([s1 EXCEPT !._chi2 = None, !.scaled_by_F0 = a.scaled_by_F0])
         ELSE Bind(calc_phase_resids(s1), LAMBDA p :
              IF p.exc # "none" THEN p
              ELSE Bind([s1 EXCEPT !.phase_resids = p.val], LAMBDA s2 :
                   Bind(calc_time_resids(s2), LAMBDA t :
                   IF t.exc # "none"
                   THEN [t EXCEPT !.dpn = p.dpn, !.phase = p.phase, !.self = s2]
                   ELSE [t EXCEPT !.dpn = p.dpn, !.phase = p.phase, !.val = None,
                                  !.self = [s2 EXCEPT !.time_resids = t.val,
                                                      !.dof = Some(get_dof(s2)),
                                                      !._chi2 = None,
                                                      !.scaled_by_F0 = a.scaled_by_F0]])))))

\* WidebandDMResiduals.get_dm_data: the pp_dm and pp_dme flags of the TOAs
get_dm_data(self) == [dm_data |-> Some(pp_dm), dm_error |-> Some(toas.dme)]

\* WidebandDMResiduals.__init__
Wideband_init(a) ==
    Bind(Stored("WidebandDMResiduals", a), LAMBDA s0 :
    IF a.model = 0
    THEN Raise(Frame(s0), "AttributeError", "NoneType has no attribute dm_value")
    ELSE IF a.toas = "None"
    THEN Raise(Frame(s0), "AttributeError", "NoneType has no attribute get_flag_value")
    ELSE Frame([s0 EXCEPT !.get_model_value = a.model,
                          !.dm_data = get_dm_data(s0).dm_data,
                          !.dm_error = get_dm_data(s0).dm_error,
                          !.scaled_by_F0 = a.scaled_by_F0, !._chi2 = None]))

\* Residuals(...) or WidebandDMResiduals(...): __new__, then __init__ of the
\* class __new__ chose.
Constructor(cls, a) ==
    Bind(Residuals_new(cls, a.residual_type), LAMBDA n :
    IF n.exc # "none"
    THEN Raise(Frame(NoEntity), n.exc, "not a PINT supported residual")
    ELSE IF n.cls = "Residuals" THEN Residuals_init(a)
    ELSE Wideband_init(a))

\* ------------------------------------------------------------------ state
Classes == {"Residuals", "WidebandDMResiduals"}
TrackModes == {"nearest", "use_pulse_numbers"}

\* The arguments of a constructor call: every combination of the two mean
\* flags and track_mode with the other arguments at their defaults, and each
\* other argument changed alone. A WidebandDMResiduals takes no track_mode.
DefaultType(cls) == IF cls = "Residuals" THEN toa ELSE dm
Args(cls) ==
    LET wide(a) == Residuals_new(cls, a.residual_type).cls = "WidebandDMResiduals"
        flags(a) == a.subtract_mean /\ a.use_weighted_mean /\ a.track_mode = "nearest"
        dtoas(a) == a.toas = "toas"
        dmodel(a) == a.model = 1
        dtype(a) == a.residual_type = DefaultType(cls)
        dscaled(a) == a.scaled_by_F0 = ~wide(a)
    IN  {a \in [toas : {"None", "toas"}, model : {0, 1}, residual_type : RTypes,
                subtract_mean : BOOLEAN, use_weighted_mean : BOOLEAN,
                track_mode : TrackModes, scaled_by_F0 : BOOLEAN] :
            /\ wide(a) => a.track_mode = "nearest" /\ ~a.scaled_by_F0
            /\ \/ dtoas(a) /\ dmodel(a) /\ dtype(a) /\ dscaled(a)
               \/ flags(a) /\ dtoas(a) /\ dtype(a) /\ dscaled(a)
               \/ flags(a) /\ dtoas(a) /\ dmodel(a) /\ dscaled(a)
               \/ flags(a) /\ dmodel(a) /\ dtype(a)}

\* The record of the last call: the frame's outcome and log, whether __init__
\* ran and, for a constructor call, the class and residual_type it was given.
MkRet(op, f, inited, args) ==
    [op |-> op, exc |-> f.exc, msg |-> f.msg, val |-> f.val,
     phase |-> f.phase, freq |-> f.freq, gls |-> f.gls, warn |-> f.warn,
     calc |-> f.calc, inited |-> inited, args |-> args]

NoRet ==
    [op |-> "start", exc |-> "none", msg |-> "", val |-> None,
     phase |-> None, freq |-> None, gls |-> None, warn |-> FALSE,
     calc |-> FALSE, inited |-> FALSE, args |-> None]

Models ==
    {m \in [params : {{"DM"} \cup n : n \in SUBSET {"F0", "nu"}},
            attrF0 : BOOLEAN, free : {{}}, TRACK : {"0", "-2"},
            has_correlated_errors : BOOLEAN, gls : {"ok", "singular"},
            ecorr : BOOLEAN] :
        /\ "F0" \in m.params => m.attrF0
        /\ m.ecorr => m.has_correlated_errors
        /\ ~m.has_correlated_errors => m.gls = "ok"}

\* The uncertainties: 2 for every TOA but at most one, which has any value.
Errs == {e \in [Idx -> ErrVals] : Cardinality({i \in Idx : e[i] # 2}) <= 1}

Toas ==
    [err : Errs,
     pulse_number : {None, Some(PulseNumbers)},
     dpn : {None, Some([i \in Idx |-> IF i = 1 THEN 1 ELSE 0])},
     dme : {[i \in Idx |-> 1], [i \in Idx |-> IF i = 1 THEN 0 ELSE 2]}]


Ones == [i \in Idx |-> 1]
Twos == [i \in Idx |-> 2]

\* The TOAs and the model at the start: a model with the one spin-frequency
\* parameter F0 with every observation set, and each other model with the
\* plain observation set (no zero uncertainty, pulse numbers, no
\* delta_pulse_number column); zero wideband DM errors with the plain model.
Worlds ==
    {x \in Toas \X Models :
        LET t == x[1]
            m == x[2]
            plain_t == t.err = Twos /\ t.pulse_number # None /\ t.dpn = None
            plain_m == /\ m.params = {"DM", "F0"} /\ m.TRACK = "0"
                       /\ ~m.has_correlated_errors
        IN  \/ m.params = {"DM", "F0"} /\ t.dme = Ones
            \/ plain_t /\ t.dme = Ones /\ m.TRACK = "0" /\ ~m.has_correlated_errors
            \/ plain_t /\ plain_m}

Init ==
    /\ \E x \in Worlds : toas = x[1] /\ model = x[2]
    /\ res = NoEntity
    /\ ret = NoRet
    /\ dirty = "clean"
    /\ edits = 0
    /\ residual_objs = <<>>
    /\ cret = None

CombUnchanged == UNCHANGED <<residual_objs, cret>>

\* A call of a method on the entity: the entity and the shared column are
\* left as the call left them, also when it raised.
Call(op, f) ==
    /\ res' = f.self
    /\ toas' = [toas EXCEPT !.dpn = f.dpn]
    /\ ret' = MkRet(op, f, FALSE, None)
    /\ UNCHANGED <<model, edits>>
    /\ CombUnchanged

\* r = Residuals(toas, model, ...) or r = WidebandDMResiduals(toas, model, ...):
\* the name is bound only when the constructor returns.
Construct(cls, a) ==
    /\ res.cls = "none"
    /\ \E f \in {Constructor(cls, a)} :
           /\ res' = IF f.exc = "none" THEN f.self ELSE res
           /\ toas' = [toas EXCEPT !.dpn = f.dpn]
           /\ ret' = MkRet("construct", f,
                           Residuals_new(cls, a.residual_type).exc = "none",
                           Some([cls |-> cls, residual_type |-> a.residual_type,
                                 track_mode |-> a.track_mode]))
    /\ dirty' = "clean"
    /\ UNCHANGED <<model, edits>>
    /\ CombUnchanged

\* r.chi2
ReadChi2 ==
    /\ res.cls # "none"
    /\ \E f \in {chi2(res)} : Call("chi2", f)
    /\ UNCHANGED dirty

\* r.resids
ReadResids ==
    /\ res.cls # "none"
    /\ \E f \in {resids(res)} : Call("resids", f)
    /\ UNCHANGED dirty

\* r.calc_chi2(full_cov)
CallCalcChi2(full_cov) ==
    /\ res.cls = "Residuals"
    /\ \E f \in {calc_chi2(res, full_cov)} : Call("calc_chi2", f)
    /\ UNCHANGED dirty

\* r.ecorr_average(use_noise_model)
EcorrAverage(use_noise_model) ==
    /\ res.cls = "Residuals"
    /\ \E f \in {ecorr_average(res, use_noise_model)} : Call("ecorr_average", f)
    /\ UNCHANGED dirty

\* r.update()
Update ==
    /\ res.cls # "none"
    /\ \E f \in {update(res)} :
           /\ Call("update", f)
           /\ dirty' = IF f.exc # "none" THEN dirty
                       ELSE IF dirty \in {"updated", "updated2"} THEN "updated2"
                       ELSE "updated"

\* w.update_model(new_model)
UpdateModel(new_model) ==
    /\ res.cls = "WidebandDMResiduals"
    /\ \E f \in {update_model(res, new_model)} : Call("update_model", f)
    /\ dirty' = "changed"

\* The owner of the TOAs changes an uncertainty. (The changes of the owners
\* are followed for a Residuals entity, which reads what they change; a
\* WidebandDMResiduals keeps its own copy of the DM errors.)
SetError(i, v) ==
    /\ res.cls = "Residuals"
    /\ edits < MaxEdits
    /\ toas.err[i] # v
    /\ [toas.err EXCEPT ![i] = v] \in Errs
    /\ edits' = edits + 1
    /\ toas' = [toas EXCEPT !.err[i] = v]
    /\ ret' = MkRet("set_error", Frame(res), FALSE, None)
    /\ dirty' = "changed"
    /\ UNCHANGED <<model, res>>
    /\ CombUnchanged

\* The owner of the model frees a parameter (frozen = False).
FreeParam(p) ==
    /\ res.cls = "Residuals"
    /\ edits < MaxEdits
    /\ p \in model.params \ model.free
    /\ edits' = edits + 1
    /\ model' = [model EXCEPT !.free = @ \cup {p}]
    /\ ret' = MkRet("free", Frame(res), FALSE, None)
    /\ dirty' = IF dirty \in {"clean", "updated", "updated2"} THEN "freed" ELSE "changed"
    /\ UNCHANGED <<toas, res>>
    /\ CombUnchanged

\* The owner of the model sets its TRACK parameter.
SetTrack(v) ==
    /\ res.cls = "Residuals"
    /\ edits < MaxEdits
    /\ model.TRACK # v
    /\ edits' = edits + 1
    /\ model' = [model EXCEPT !.TRACK = v]
    /\ ret' = MkRet("set_track", Frame(res), FALSE, None)
    /\ dirty' = "changed"
    /\ UNCHANGED <<toas, res>>
    /\ CombUnchanged

Next ==
    \/ \E cls \in Classes : \E a \in Args(cls) : Construct(cls, a)
    \/ ReadChi2
    \/ ReadResids
    \/ \E full_cov \in BOOLEAN : CallCalcChi2(full_cov)
    \/ \E use_noise_model \in BOOLEAN : EcorrAverage(use_noise_model)
    \/ Update
    \/ \E id \in 1..NumModels : UpdateModel(id)
    \/ \E i \in Idx, v \in ErrVals : SetError(i, v)
    \/ \E p \in {"F0", "nu", "DM"} : FreeParam(p)
    \/ \E v \in {"0", "-2"} : SetTrack(v)

Spec == Init /\ [][Next]_vars

\* -------------------------------------------------------- CombinedResiduals
\* What CombinedResiduals reads of a residual entity: its residual_type, its
\* resids_value and data_error (unit-stripped vectors), its chi2 cache and
\* the value its calc_chi2 returns.
Member(t, n, k, cache) ==
    [residual_type |-> t,
     resids_value |-> [i \in 1..n |-> k * i - 2],
     data_error |-> [i \in 1..n |-> k + i],
     calc |-> Fin(k * n),
     _chi2 |-> cache]

Members ==
    UNION {{Member(t, n, k, None), Member(t, n, k, Some(Fin(k)))} :
              t \in {toa, dm}, n \in 1..MaxLen, k \in {1, 2}}

RECURSIVE ListsUpTo(_)
ListsUpTo(n) ==
    IF n = 0 THEN {<<>>}
    ELSE ListsUpTo(n - 1) \cup
         {Append(l, m) : l \in {x \in ListsUpTo(n - 1) : Len(x) = n - 1}, m \in Members}

\* numpy.hstack of a list of vectors
RECURSIVE hstack(_)
hstack(l) == IF l = <<>> THEN <<>> ELSE Head(l) \o hstack(Tail(l))

\* collections.OrderedDict(pairs): a key keeps the place of its first
\* insertion and the value of its last.
RECURSIVE OrderedDict(_)
OrderedDict(pairs) ==
    IF pairs = <<>> THEN <<>>
    ELSE LET d == OrderedDict(SubSeq(pairs, 1, Len(pairs) - 1))
             kv == pairs[Len(pairs)]
         IN  IF \E i \in DOMAIN d : d[i][1] = kv[1]
             THEN [i \in DOMAIN d |-> IF d[i][1] = kv[1] THEN kv ELSE d[i]]
             ELSE Append(d, kv)

\* A resids that stacks the members last to first (a variant the
\* concatenation property must reject).
Combined_resids_reversed(objs) ==
    hstack([i \in DOMAIN objs |-> objs[Len(objs) + 1 - i].resids_value])

\* CombinedResiduals.resids
Combined_resids(objs) == hstack([i \in DOMAIN objs |-> objs[i].resids_value])

\* CombinedResiduals.get_data_error
get_data_error(objs) ==
    OrderedDict([i \in DOMAIN objs |-> <<objs[i].residual_type, objs[i].data_error>>])

\* CombinedResiduals.data_error
Combined_data_error(objs) ==
    Bind(get_data_error(objs), LAMBDA dr : hstack([i \in DOMAIN dr |-> dr[i][2]]))

\* The chi2 property of a member: the cache, filled on the first read.
MemberChi2(m) == IF m._chi2 = None THEN m.calc ELSE m._chi2[1]

\* CombinedResiduals.chi2: the loop of lines 546-549 over the first n members
RECURSIVE Combined_chi2(_, _)
Combined_chi2(objs, n) ==
    IF n = 0 THEN Fin(0) ELSE ChiAdd(Combined_chi2(objs, n - 1), MemberChi2(objs[n]))

InitComb ==
    /\ toas = [err |-> Twos, pulse_number |-> None, dpn |-> None, dme |-> Ones]
    /\ model = [params |-> {"DM", "F0"}, attrF0 |-> TRUE, free |-> {}, TRACK |-> "0",
                has_correlated_errors |-> FALSE, gls |-> "ok", ecorr |-> FALSE]
    /\ res = NoEntity
    /\ ret = NoRet
    /\ dirty = "clean"
    /\ edits = 0
    /\ residual_objs \in ListsUpTo(MaxObjs) \ {<<>>}
    /\ cret = None

MainUnchanged == UNCHANGED <<toas, model, res, ret, dirty, edits>>

\* c.resids
CombResids ==
    /\ cret' = Some([op |-> "resids", val |-> Combined_resids(residual_objs)])
    /\ UNCHANGED residual_objs
    /\ MainUnchanged

\* c.data_error
CombDataError ==
    /\ cret' = Some([op |-> "data_error", val |-> Combined_data_error(residual_objs)])
    /\ UNCHANGED residual_objs
    /\ MainUnchanged

\* c.chi2: every member's chi2 is read, which fills its cache
CombChi2 ==
    /\ cret' = Some([op |-> "chi2",
                     val |-> Combined_chi2(residual_objs, Len(residual_objs))])
    /\ residual_objs' = [i \in DOMAIN residual_objs |->
                           [residual_objs[i] EXCEPT !._chi2 = Some(MemberChi2(residual_objs[i]))]]
    /\ MainUnchanged

NextComb ==
    \/ CombResids
    \/ CombDataError
    \/ CombChi2

SpecComb == InitComb /\ [][NextComb]_vars

\* ================================================================ properties
ZeroError == \E i \in Idx : toas.err[i] = 0
FreeCount == Cardinality({p \in model.params : p \in model.free})

\* C1: the chi2 cache of a Residuals entity is either stale (None) or
\* computed. It is stale when the constructor returns; a successful read of
\* chi2 from a stale cache calls calc_chi2 and stores what it returned; a read
\* of chi2 from a computed cache returns the stored value, calls calc_chi2 not
\* at all and leaves the cache as it is; and a step that takes a computed
\* cache to stale is a successful update(), which leaves dof recomputed.
C1_ChiCacheTwoStates ==
    [][/\ (res.cls = "none" /\ res'.cls = "Residuals") => res'._chi2 = None
       /\ (res.cls = "Residuals" /\ ret'.op = "chi2") =>
            /\ (res._chi2 = None /\ ret'.exc = "none") =>
                 ret'.calc /\ ret'.val # None /\ res'._chi2 = ret'.val
            /\ res._chi2 # None =>
                 /\ ret'.exc = "none" /\ ~ret'.calc
                 /\ ret'.val = res._chi2 /\ res'._chi2 = res._chi2
       /\ (res.cls = "Residuals" /\ res._chi2 # None /\ res'._chi2 = None) =>
            /\ ret'.op = "update" /\ ret'.exc = "none"
            /\ res'.dof = Some(NumToas - FreeCount' - 1)
      ]_vars

\* A chi2 read that was served from the cache, after an update() and a first
\* read that filled it.
C1_Witness ==
    /\ res.cls = "Residuals" /\ ret.op = "chi2" /\ ~ret.calc
    /\ res._chi2 = ret.val /\ ret.val # None
    /\ dirty \in {"updated", "updated2"}

\* C2: when the constructor of a Residuals entity given TOAs and a model
\* returns, and when update() returns, dof is the number of TOAs minus the
\* number of free model parameters minus 1; and an update() that follows the
\* freeing of one parameter leaves dof one lower than it was.
C2_Dof ==
    [][/\ (res'.cls = "Residuals" /\ ret'.op \in {"construct", "update"}
           /\ ret'.exc = "none" /\ res'.toas # "None" /\ res'.model # 0) =>
            res'.dof = Some(NumToas - FreeCount' - 1)
       /\ (res.cls = "Residuals" /\ ret'.op = "update" /\ ret'.exc = "none"
           /\ dirty = "freed") =>
            /\ res.dof # None /\ res'.dof # None
            /\ res'.dof[1] = res.dof[1] - 1
      ]_vars

\* An update() that followed the freeing of one parameter.
C2_Witness ==
    /\ res.cls = "Residuals" /\ ret.op = "update" /\ ret.exc = "none"
    /\ FreeCount = 1 /\ edits = 1
    /\ res.dof = Some(NumToas - 2)

\* C3: for a Residuals entity whose model has no correlated noise, every
\* calc_chi2 made while some TOA uncertainty is zero returns +infinity; and
\* every phase residual computation with subtract_mean and use_weighted_mean
\* made while some TOA uncertainty is zero raises ValueError, the one of the
\* zero uncertainties whenever the computation reaches the mean.
C3_ZeroUncertainty ==
    /\ (/\ res.cls = "Residuals" /\ ret.calc
        /\ res.toas # "None" /\ res.model # 0
        /\ ~model.has_correlated_errors /\ ZeroError) =>
         ret.exc = "none" /\ ret.val = Some(Inf)
    /\ (/\ ret.phase # None /\ ret.phase[1].cls = "Residuals"
        /\ ret.phase[1].toas # "None"
        /\ ret.phase[1].subtract_mean /\ ret.phase[1].use_weighted_mean
        /\ ZeroError) =>
         /\ ret.phase[1].exc = "ValueError" /\ ret.exc = "ValueError"
         /\ (ret.phase[1].track_mode = "use_pulse_numbers" => toas.pulse_number # None)
              => ret.msg = "Some TOA errors are zero"

\* A chi2 read that computed +infinity from a zero uncertainty.
C3_Witness ==
    /\ res.cls = "Residuals" /\ ret.op = "chi2" /\ ret.calc
    /\ ~model.has_correlated_errors /\ ZeroError
    /\ ret.val = Some(Inf) /\ res._chi2 = Some(Inf)

\* C4: for a Residuals entity whose model has correlated noise, every
\* calc_chi2 passes the work to the GLS evaluator with maxiter = 0 and the
\* caller's full_cov and returns the evaluator's value; when the evaluator
\* raises LinAlgError, calc_chi2 logs a warning and returns +infinity, and no
\* calc_chi2 or chi2 ends with LinAlgError.
C4_CorrelatedNoise ==
    (res.cls = "Residuals" /\ ret.calc /\ res.model # 0 /\ model.has_correlated_errors) =>
        /\ ret.gls # None /\ ret.gls[1].maxiter = 0
        /\ ret.op = "chi2" => ret.gls[1].full_cov = FALSE
        /\ ret.exc # "LinAlgError"
        /\ (res.toas # "None" /\ res.time_resids # None) =>
             /\ ret.exc = "none"
             /\ model.gls = "singular" => ret.warn /\ ret.val = Some(Inf)
             /\ model.gls = "ok" =>
                  /\ ~ret.warn
                  /\ ret.val = Some(Fin(SeqSum([i \in Idx |->
                                  res.time_resids[1][i] * res.time_resids[1][i]])))

\* A chi2 read whose evaluator failed on a singular matrix.
C4_Witness ==
    /\ res.cls = "Residuals" /\ ret.op = "chi2" /\ ret.calc
    /\ model.has_correlated_errors /\ model.gls = "singular"
    /\ ret.gls # None /\ ret.warn /\ ret.val = Some(Inf) /\ ret.exc = "none"

\* v is the concatenation of the vectors of parts, in the order of parts.
IsConcat(v, parts) ==
    /\ Len(v) = SeqSum([k \in DOMAIN parts |-> Len(parts[k])])
    /\ \A j \in DOMAIN parts : \A i \in DOMAIN parts[j] :
         v[SeqSum([k \in 1..(j - 1) |-> Len(parts[k])]) + i] = parts[j][i]

DistinctTypes ==
    \A i, j \in DOMAIN residual_objs :
        i # j => residual_objs[i].residual_type # residual_objs[j].residual_type

\* What C5 says of the value a CombinedResiduals read returned.
CombinedAsClaimed ==
    cret # None =>
      /\ cret[1].op = "resids" =>
           IsConcat(cret[1].val, [i \in DOMAIN residual_objs |-> residual_objs[i].resids_value])
      /\ cret[1].op = "data_error" =>
           IsConcat(cret[1].val, [i \in DOMAIN residual_objs |-> residual_objs[i].data_error])
      /\ cret[1].op = "chi2" =>
           /\ \A i \in DOMAIN residual_objs : residual_objs[i]._chi2 # None
           /\ cret[1].val = Fin(SeqSum([i \in DOMAIN residual_objs |->
                                          residual_objs[i]._chi2[1].v]))

\* C5 (as amended): for every ordered list of residual entities whose
\* residual_type strings are pairwise different, the combined resids and the
\* combined data_error are the concatenations, in list order, of the members'
\* vectors, and the combined chi2 is the sum of the members' cached chi2.
C5_CombinedDistinctTypes == DistinctTypes => CombinedAsClaimed

\* The combined data_error of a two-member list of different types.
C5_Witness ==
    /\ cret # None /\ cret[1].op = "data_error"
    /\ Len(residual_objs) = 2 /\ DistinctTypes
    /\ Len(residual_objs[1].data_error) # Len(residual_objs[2].data_error)
    /\ Len(cret[1].val) = Len(residual_objs[1].data_error) + Len(residual_objs[2].data_error)

\* C5 as stated, for every ordered list: two members of one residual_type
\* share one key of the dictionary get_data_error builds, so the combined
\* data_error holds the vector of the later one only.
C5_AsStated == CombinedAsClaimed

\* C6: an update() of a Residuals entity made after a successful update(),
\* with no change of the TOAs or the model since, succeeds and leaves
\* phase_resids, time_resids and dof as they were, and the value a read of
\* chi2 returns after it is the value a read of chi2 returned before it.
C6_UpdateIdempotent ==
    [][(res.cls = "Residuals" /\ dirty \in {"updated", "updated2"} /\ ret'.op = "update") =>
         /\ ret'.exc = "none"
         /\ res'.phase_resids = res.phase_resids
         /\ res'.time_resids = res.time_resids
         /\ res'.dof = res.dof
         /\ res'._chi2 = None
         /\ chi2(res).exc = "none" => (chi2(res).exc)' = "none"
         /\ (chi2(res).val)' = chi2(res).val
      ]_vars

\* A chi2 read after the second of two update() calls in a row, which
\* followed a change of the inputs.
C6_Witness ==
    /\ res.cls = "Residuals" /\ dirty = "updated2" /\ edits = 1
    /\ ret.op = "chi2" /\ ret.calc /\ ret.exc = "none"
    /\ res.phase_resids # None /\ res.time_resids # None

Unrecognized(residual_type) == lower(residual_type) \notin DOMAIN residual_map

\* What C7 says of a constructor call given an unrecognized residual_type.
RejectedBeforeAnyWork ==
    /\ ret'.exc = "ValueError" /\ ret'.msg = "not a PINT supported residual"
    /\ ~ret'.inited
    /\ ret'.phase = None /\ ret'.freq = None /\ ret'.gls = None /\ ~ret'.calc
    /\ toas' = toas /\ res' = res

\* C7 (as amended): a construction through the Residuals class with a
\* residual_type that is, lower-cased, no key of residual_map raises
\* ValueError in __new__, before __init__ runs: no phase, frequency or chi2
\* computation is made, the TOAs are not touched and no entity exists; with a
\* residual_type that is a key in any letter case, __init__ runs.
C7_UnsupportedThroughResiduals ==
    [][(res.cls = "none" /\ ret'.op = "construct" /\ ret'.args # None
        /\ ret'.args[1].cls = "Residuals") =>
         IF Unrecognized(ret'.args[1].residual_type)
         THEN RejectedBeforeAnyWork
         ELSE ret'.inited /\ ret'.msg # "not a PINT supported residual"
      ]_vars

\* Residuals(toas, model, residual_type="xyz") was refused.
C7_Witness ==
    /\ ret.op = "construct" /\ ret.args # None
    /\ ret.args[1].cls = "Residuals" /\ ret.args[1].residual_type = <<"x", "y", "z">>
    /\ ret.exc = "ValueError" /\ ~ret.inited /\ res.cls = "none"

\* C7 as stated, for a construction of any residual entity: a
\* WidebandDMResiduals constructed directly is not looked up in residual_map.
C7_AsStated ==
    [][(res.cls = "none" /\ ret'.op = "construct" /\ ret'.args # None
        /\ Unrecognized(ret'.args[1].residual_type)) =>
         RejectedBeforeAnyWork
      ]_vars

\* C8 as stated: get_PSR_freq returns the value of the one name of F0, nu that
\* is among the model's parameters, and raises ValueError, leaving no entity
\* constructed, when none or both are.
C8_AsStated ==
    ret.freq # None =>
        LET found == {n \in {"F0", "nu"} : n \in model.params}
        IN  IF Cardinality(found) = 1
            THEN /\ ret.freq[1].exc = "none"
                 /\ ret.freq[1].val = Some(ParamValue(CHOOSE n \in found : TRUE))
            ELSE /\ ret.freq[1].exc = "ValueError" /\ ret.exc = "ValueError"
                 /\ ret.op = "construct" => res.cls = "none"

UsePulseNumbersIf(track, callers) ==
    IF track = "-2" THEN "use_pulse_numbers" ELSE callers

\* C9 (as amended): the tracking mode of a Residuals entity is chosen when it
\* is constructed, use_pulse_numbers if the model's TRACK is "-2" then and the
\* caller's track_mode otherwise, and every phase residual computation, at
\* construction and at every later update(), uses the mode chosen then,
\* whatever TRACK has become.
C9_TrackModeChosenAtConstruction ==
    [][/\ (res.cls = "none" /\ ret'.op = "construct" /\ ret'.args # None) =>
            /\ ret'.phase # None =>
                 ret'.phase[1].track_mode =
                     UsePulseNumbersIf(model.TRACK, ret'.args[1].track_mode)
            /\ res'.cls = "Residuals" =>
                 res'.track_mode = UsePulseNumbersIf(model.TRACK, ret'.args[1].track_mode)
       /\ res.cls = "Residuals" =>
            /\ res'.track_mode = res.track_mode
            /\ ret'.phase # None => ret'.phase[1].track_mode = res.track_mode
      ]_vars

\* An update() that used use_pulse_numbers, forced at construction against
\* the caller's "nearest", after TRACK was set to another value.
C9_Witness ==
    /\ res.cls = "Residuals" /\ ret.op = "update" /\ ret.exc = "none"
    /\ res.arg_track_mode = "nearest" /\ model.TRACK = "0"
    /\ ret.phase # None /\ ret.phase[1].track_mode = "use_pulse_numbers"

\* C9 as stated: every phase residual computation a Residuals entity completes uses
\* use_pulse_numbers if TRACK is "-2" when it is made, and the caller's
\* track_mode otherwise.
C9_AsStated ==
    (res.cls = "Residuals" /\ ret.phase # None /\ ret.phase[1].exc = "none") =>
        ret.phase[1].track_mode = UsePulseNumbersIf(model.TRACK, res.arg_track_mode)

\* C10 as stated: a WidebandDMResiduals computes chi2 on the first read and
\* serves later reads from the cache; update() succeeds and leaves the cache
\* stale; and every read of resids returns the residuals of the entity's
\* current model.
C10_AsStated ==
    [][res.cls = "WidebandDMResiduals" =>
         /\ ret'.op = "chi2" =>
              /\ (res._chi2 = None /\ ret'.exc = "none") =>
                   ret'.calc /\ res'._chi2 = ret'.val
              /\ res._chi2 # None =>
                   ~ret'.calc /\ ret'.val = res._chi2 /\ res'._chi2 = res._chi2
         /\ ret'.op = "update" => ret'.exc = "none" /\ res'._chi2 = None
         /\ ret'.op = "resids" =>
              ret'.val = calc_resids([res EXCEPT !.get_model_value = res.model]).val
      ]_vars

EntityOps == {"construct", "update", "resids", "chi2", "calc_chi2", "ecorr_average"}

\* C11: a construction, an update(), a read of resids or chi2, a calc_chi2
\* or an ecorr_average changes nothing of the shared TOAs but the
\* delta_pulse_number column, and that column only from absent to all zeros:
\* a column that is present is left as it is, whether it came with the TOAs
\* or was created by an earlier operation.
C11_OnlyColumnCreated ==
    [][ret'.op \in EntityOps =>
         /\ toas'.err = toas.err
         /\ toas'.pulse_number = toas.pulse_number
         /\ toas'.dme = toas.dme
         /\ toas.dpn # None => toas'.dpn = toas.dpn
         /\ toas.dpn = None => toas'.dpn \in {None, Some(Zeros)}
      ]_vars

\* An ecorr_average on a Residuals entity after an update(), with the column
\* that the construction created still all zeros.
C11_Witness ==
    /\ res.cls = "Residuals" /\ ret.op = "ecorr_average" /\ ret.exc = "none"
    /\ dirty \in {"updated", "updated2"}
    /\ toas.dpn = Some(Zeros)

\* The chi-squared of the time residuals t with the TOAs and the model as
\* they are.
ChiSquaredOf(t) ==
    IF model.has_correlated_errors
    THEN IF model.gls = "singular" THEN Inf
         ELSE Fin(SeqSum([i \in Idx |-> t[i] * t[i]]))
    ELSE IF ZeroError THEN Inf
    ELSE Fin(SeqSum([i \in Idx |-> (t[i] * t[i] * 4) \div (toas.err[i] * toas.err[i])]))

====
